---- MODULE Spec2Model ----
(***************************************************************************)
(* State-machine model of backend.py: the train-traffic simulation engine  *)
(* (ai_simulation_thread), its decision log (log_ai_decision) and the two  *)
(* request handlers that run beside it (get_system_state,                  *)
(* simulate_scenario).                                                     *)
(*                                                                         *)
(* Numbers.  Positions are Python floats.  They are kept here in fixed     *)
(* point, Scale sub-units to one position unit, and time in whole seconds. *)
(* With every speed a multiple of 5 units/hour the advance                 *)
(* speed * (elapsed / 3600) is then a whole number of sub-units, so the    *)
(* arithmetic of the model is exact, not rounded.                          *)
(*                                                                         *)
(* Dictionaries.  A Python dict iterates in insertion order, and the code  *)
(* depends on that order (first blocking signal, stable priority sort), so *)
(* system_state["trains"] and system_state["signals"] are sequences of     *)
(* records; the dict key is the field tid / sid.  The key "id" that        *)
(* get_system_state adds to a train dict is the field id, NoId when the    *)
(* dict has no such key.                                                   *)
(*                                                                         *)
(* Time.  time.time() is the variable now; it moves only while the engine  *)
(* sleeps (the work of one tick takes microseconds).                       *)
(***************************************************************************)
EXTENDS Integers, Sequences, FiniteSets, TLC

VARIABLES
    trains,       \* system_state["trains"], in insertion order
    signals,      \* system_state["signals"], in insertion order
    ai_log,       \* system_state["ai_log"], newest first
    kpis,         \* system_state["kpis"]
    state_lock,   \* state_lock: "free", or who holds it
    now,          \* time.time(), seconds
    pc,           \* where ai_simulation_thread is in its loop
    tick_no,      \* iterations of the loop started so far
    tick_time,    \* time.time() of the latest iteration (history)
    rpc,          \* where the get_system_state request is
    since,        \* its since_timestamp
    recent_logs,  \* its recent_logs
    response,     \* the last response it returned
    advice,       \* the last response of simulate_scenario
    log_calls,    \* history: calls of log_ai_decision so far
    committed     \* history: trains and signals as the last finished tick left them

vars == <<trains, signals, ai_log, kpis, state_lock, now, pc, tick_no, tick_time,
          rpc, since, recent_logs, response, advice, log_calls, committed>>

apiVars == <<rpc, since, recent_logs, response, advice>>

-----------------------------------------------------------------------------
(* Bounds of the model *)

\* The engine loop is cut after this many iterations.
MaxTicks == 3
\* A long pause of the engine between two ticks, in seconds (the short one is
\* the SleepSeconds of time.sleep).
Stall == 360
\* Calls of log_ai_decision in the specification of the log alone.
MaxRecords == 3
\* The engine loop at its one-second cadence is cut after this many iterations.
CadenceTicks == 32
\* time.time() when the process starts, in seconds
Epoch == 1000

-----------------------------------------------------------------------------
(* Program constants *)

Scale == 3600 \div 5
LookAhead == 5
BlockLength == 20
Proximity == 25
LogCapacity == 100
SleepSeconds == 1

\* u position units, in sub-units
P(u) == u * Scale

TrackLengths == [t \in {0, 1, 2} |-> 100]

J1 == [tracks |-> <<0, 1>>, position |-> 50, controlled_by |-> <<"S2", "S4">>]

NoId == "-"
NoResponse == [trains |-> <<>>, signals |-> <<>>, logs |-> <<>>, kpis |-> <<>>]
NoAdvice == [scenario |-> "-", plan |-> 0, impact |-> "-"]

Abs(x) == IF x < 0 THEN -x ELSE x
MinOf(S) == CHOOSE x \in S : \A y \in S : x <= y
InSeq(x, s) == \E i \in 1..Len(s) : s[i] = x

-----------------------------------------------------------------------------
(* log_ai_decision *)

LogEntry(t, level, message) == [timestamp |-> t, level |-> level, message |-> message]

\* a log that evicts at the wrong end: pop(0) for pop()
LogAiDecisionPopHead(log, t, level, message) ==
    LET inserted == <<LogEntry(t, level, message)>> \o log
    IN  IF Len(inserted) > LogCapacity THEN Tail(inserted) ELSE inserted

\* insert(0, entry), then pop() when the list got longer than 100
LogAiDecision(log, t, level, message) ==
    LET inserted == <<LogEntry(t, level, message)>> \o log
    IN  IF Len(inserted) > LogCapacity
        THEN SubSeq(inserted, 1, Len(inserted) - 1)
        ELSE inserted

\* the calls of log_ai_decision of one step, msgs[1] first
RECURSIVE LogAll(_, _, _)
LogAll(log, t, msgs) ==
    IF msgs = <<>> THEN log
    ELSE LogAll(LogAiDecision(log, t, msgs[1].level, msgs[1].message), t, Tail(msgs))

Msg(level, message) == [level |-> level, message |-> message]

-----------------------------------------------------------------------------
(* Step 1 of a tick: train advancement *)

BlockingSignalsShortSighted(data, sigs) ==
    {i \in 1..Len(sigs) :
        /\ sigs[i].track = data.track
        /\ sigs[i].position > data.position
        /\ (sigs[i].position - data.position) < P(1)
        /\ sigs[i].state # "GREEN"}

\* the signals (indices) that stop the train: same track, strictly ahead,
\* less than 5 units away, not GREEN
BlockingSignals(data, sigs) ==
    {i \in 1..Len(sigs) :
        /\ sigs[i].track = data.track
        /\ sigs[i].position > data.position
        /\ (sigs[i].position - data.position) < P(LookAhead)
        /\ sigs[i].state # "GREEN"}

\* speed * (elapsed / 3600), in sub-units
Distance(speed, elapsed) == (speed * elapsed * Scale) \div 3600

MoveTrainStaleClock(data, sigs, t) ==
    LET elapsed == t - data.last_update
        blocking == BlockingSignals(data, sigs)
    IN  IF blocking # {}
        THEN [data EXCEPT !.status = "Waiting at signal " \o sigs[MinOf(blocking)].sid]
        ELSE [data EXCEPT !.position = @ + Distance(data.speed, elapsed),
                          !.status = "On Time",
                          !.last_update = t]

\* the body of the loop over the trains up to the refresh of last_update; the
\* inner loop breaks at the first blocking signal in the order of the dict
MoveTrain(data, sigs, t) ==
    LET elapsed == t - data.last_update
        blocking == BlockingSignals(data, sigs)
    IN  IF blocking # {}
        THEN [data EXCEPT !.status = "Waiting at signal " \o sigs[MinOf(blocking)].sid,
                          !.last_update = t]
        ELSE [data EXCEPT !.position = @ + Distance(data.speed, elapsed),
                          !.status = "On Time",
                          !.last_update = t]

CompletedPastEnd(data) == data.position > P(TrackLengths[data.track])

Completed(data) == data.position >= P(TrackLengths[data.track])

\* a wrap that misses the end of the track itself: > for >=
WrapTrainPastEnd(data) ==
    IF data.position > P(TrackLengths[data.track]) THEN [data EXCEPT !.position = 0] ELSE data

WrapTrain(data) == IF Completed(data) THEN [data EXCEPT !.position = 0] ELSE data

AdvanceTrain(data, sigs, t) == WrapTrain(MoveTrain(data, sigs, t))

CompletionMessage(data) ==
    Msg("INFO", "Train " \o data.tid \o " has completed its journey on track "
                \o ToString(data.track + 1) \o ".")

\* the completion entries of step 1, in the order of the trains
RECURSIVE CompletionMessages(_, _, _)
CompletionMessages(trs, sigs, t) ==
    IF trs = <<>> THEN <<>>
    ELSE (IF Completed(MoveTrain(trs[1], sigs, t))
          THEN <<CompletionMessage(trs[1])>> ELSE <<>>)
         \o CompletionMessages(Tail(trs), sigs, t)

-----------------------------------------------------------------------------
(* Step 2 of a tick: signal recomputation *)

TrainsInBlockBehind(sig, trs) ==
    {i \in 1..Len(trs) :
        /\ trs[i].track = sig.track
        /\ sig.position - P(LookAhead) < trs[i].position
        /\ trs[i].position < sig.position + P(BlockLength)}

\* the trains (indices) in the block of the signal
TrainsInBlock(sig, trs) ==
    {i \in 1..Len(trs) :
        /\ trs[i].track = sig.track
        /\ sig.position < trs[i].position
        /\ trs[i].position < sig.position + P(BlockLength)}

ManageSignalSticky(sig, trs) ==
    [sig EXCEPT !.state = IF TrainsInBlock(sig, trs) = {} THEN "GREEN" ELSE @]

ManageSignal(sig, trs) ==
    [sig EXCEPT !.state = IF TrainsInBlock(sig, trs) = {} THEN "GREEN" ELSE "RED"]

RECURSIVE PathMessages(_, _)
PathMessages(sigs, trs) ==
    IF sigs = <<>> THEN <<>>
    ELSE (IF TrainsInBlock(sigs[1], trs) # {}
          THEN <<Msg("ACTION", "Path not clear for signal " \o sigs[1].sid \o ". Train "
                               \o trs[MinOf(TrainsInBlock(sigs[1], trs))].tid \o " in block.")>>
          ELSE <<>>)
         \o PathMessages(Tail(sigs), trs)

-----------------------------------------------------------------------------
(* Step 3 of a tick: junction conflicts *)

NearJ1(position) == Abs(position - P(J1.position)) < P(Proximity)

TrainNearJ1(data) == InSeq(data.track, J1.tracks) /\ NearJ1(data.position)

TrainsNearJ1(trs) == SelectSeq(trs, TrainNearJ1)

\* list.sort(key=priority): stable, equal priorities keep the order of the list
RECURSIVE InsertByPriority(_, _)
InsertByPriority(sorted, x) ==
    IF sorted = <<>> THEN <<x>>
    ELSE IF sorted[Len(sorted)].priority <= x.priority THEN Append(sorted, x)
    ELSE Append(InsertByPriority(SubSeq(sorted, 1, Len(sorted) - 1), x), sorted[Len(sorted)])

RECURSIVE SortByPriority(_)
SortByPriority(s) ==
    IF s = <<>> THEN <<>>
    ELSE InsertByPriority(SortByPriority(SubSeq(s, 1, Len(s) - 1)), s[Len(s)])

Contenders(trs) == SortByPriority(TrainsNearJ1(trs))

ConflictAtJ1(trs) == Len(TrainsNearJ1(trs)) > 1

WinnerId(trs) == Contenders(trs)[1].tid

GatedAnywhere(sig, tdata) == sig.track = tdata.track

\* the signals one contending train forces
Gated(sig, tdata) == sig.track = tdata.track /\ NearJ1(sig.position)

ForceFor(sigs, tdata, winner_id) ==
    [i \in 1..Len(sigs) |->
        IF Gated(sigs[i], tdata)
        THEN [sigs[i] EXCEPT !.state = IF tdata.tid = winner_id THEN "GREEN" ELSE "RED"]
        ELSE sigs[i]]

\* the loop over the contending trains, in sorted order
RECURSIVE ForceAll(_, _, _)
ForceAll(sigs, conts, winner_id) ==
    IF conts = <<>> THEN sigs
    ELSE ForceAll(ForceFor(sigs, conts[1], winner_id), Tail(conts), winner_id)

RECURSIVE RedMessagesFor(_, _)
RedMessagesFor(sigs, tdata) ==
    IF sigs = <<>> THEN <<>>
    ELSE (IF Gated(sigs[1], tdata)
          THEN <<Msg("ACTION", "Setting signal " \o sigs[1].sid \o " to RED for train "
                               \o tdata.tid \o ".")>>
          ELSE <<>>)
         \o RedMessagesFor(Tail(sigs), tdata)

RECURSIVE RedMessages(_, _, _)
RedMessages(sigs, conts, winner_id) ==
    IF conts = <<>> THEN <<>>
    ELSE (IF conts[1].tid # winner_id THEN RedMessagesFor(sigs, conts[1]) ELSE <<>>)
         \o RedMessages(sigs, Tail(conts), winner_id)

ResolveSignals(sigs, trs) ==
    IF ConflictAtJ1(trs) THEN ForceAll(sigs, Contenders(trs), WinnerId(trs)) ELSE sigs

ConflictMessages(sigs, trs) ==
    IF ConflictAtJ1(trs)
    THEN <<Msg("WARNING", "Conflict near Junction J1. Prioritizing " \o WinnerId(trs) \o ".")>>
         \o RedMessages(sigs, Contenders(trs), WinnerId(trs))
    ELSE <<>>

-----------------------------------------------------------------------------
(* ai_simulation_thread *)

\* what trains and signals show to a reader, without the added key "id"
TrainView(trs) ==
    [i \in 1..Len(trs) |->
        [tid |-> trs[i].tid, track |-> trs[i].track, position |-> trs[i].position,
         speed |-> trs[i].speed, status |-> trs[i].status, priority |-> trs[i].priority,
         last_update |-> trs[i].last_update]]

WorldView(trs, sigs) == [trains |-> TrainView(trs), signals |-> sigs]

\* lengths[data["track"]] finds the track of the train
KnownTrack(data) == data.track \in DOMAIN TrackLengths

\* the trains (indices) whose track is not a key of system_state["tracks"]["lengths"]
Faulty(trs) == {i \in 1..Len(trs) : ~KnownTrack(trs[i])}

\* with state_lock: ... the loop over the trains
AdvanceTrains ==
    /\ pc = "idle"
    /\ state_lock = "free"
    /\ Faulty(trains) = {}
    /\ state_lock' = "engine"
    /\ tick_no' = tick_no + 1
    /\ tick_time' = now
    /\ trains' = [i \in 1..Len(trains) |-> AdvanceTrain(trains[i], signals, now)]
    /\ ai_log' = LogAll(ai_log, now, CompletionMessages(trains, signals, now))
    /\ log_calls' = log_calls + Len(CompletionMessages(trains, signals, now))
    /\ pc' = "advanced"
    /\ UNCHANGED <<signals, kpis, now, committed, apiVars>>

\* The same loop when a train's track is unknown: the trains before it are
\* done, the train itself is moved and stamped, and lengths[data["track"]]
\* raises KeyError; the with block releases the lock and the thread ends.
AdvanceTrainsFault ==
    /\ pc = "idle"
    /\ state_lock = "free"
    /\ Faulty(trains) # {}
    /\ LET f == MinOf(Faulty(trains))
       IN  /\ trains' = [i \in 1..Len(trains) |->
                            IF i < f THEN AdvanceTrain(trains[i], signals, now)
                            ELSE IF i = f THEN MoveTrain(trains[i], signals, now)
                            ELSE trains[i]]
           /\ ai_log' = LogAll(ai_log, now,
                               CompletionMessages(SubSeq(trains, 1, f - 1), signals, now))
           /\ log_calls' = log_calls
                             + Len(CompletionMessages(SubSeq(trains, 1, f - 1), signals, now))
    /\ tick_no' = tick_no + 1
    /\ tick_time' = now
    /\ pc' = "crashed"
    /\ UNCHANGED <<signals, kpis, state_lock, now, committed, apiVars>>

\* "Manage signals"
ManageSignals ==
    /\ pc = "advanced"
    /\ signals' = [i \in 1..Len(signals) |-> ManageSignal(signals[i], trains)]
    /\ ai_log' = LogAll(ai_log, now, PathMessages(signals, trains))
    /\ log_calls' = log_calls + Len(PathMessages(signals, trains))
    /\ pc' = "signalled"
    /\ UNCHANGED <<trains, kpis, state_lock, now, tick_no, tick_time, committed, apiVars>>

\* "Junction conflicts", and the end of the with block
JunctionConflicts ==
    /\ pc = "signalled"
    /\ signals' = ResolveSignals(signals, trains)
    /\ ai_log' = LogAll(ai_log, now, ConflictMessages(signals, trains))
    /\ log_calls' = log_calls + Len(ConflictMessages(signals, trains))
    /\ state_lock' = "free"
    /\ committed' = WorldView(trains, signals')
    /\ pc' = "sleeping"
    /\ UNCHANGED <<trains, kpis, now, tick_no, tick_time, apiVars>>

\* time.sleep(1); the pause lasts d seconds
SleepFor(d) ==
    /\ pc = "sleeping"
    /\ now' = now + d
    /\ pc' = "idle"
    /\ UNCHANGED <<trains, signals, ai_log, kpis, state_lock, tick_no, tick_time, log_calls,
                   committed, apiVars>>

\* the loop, cut after MaxTicks iterations
Sleep(d) == tick_no < MaxTicks /\ SleepFor(d)

SleepSet == {SleepSeconds, Stall}

-----------------------------------------------------------------------------
(* setup_initial_state *)

Train(tid, track, position, speed, priority) ==
    [tid |-> tid, track |-> track, position |-> P(position), speed |-> speed,
     status |-> "On Time", priority |-> priority, last_update |-> Epoch, id |-> NoId]

Signal(sid, track, position) ==
    [sid |-> sid, track |-> track, position |-> P(position), state |-> "GREEN"]

InitialTrains ==
    << Train("T123", 0, 10, 80, 1),
       Train("T456", 1, 40, 70, 2),
       Train("T789", 2, 80, 90, 1),
       Train("T246", 1, 95, 85, 3) >>

InitialSignals ==
    << Signal("S1", 0, 25), Signal("S2", 0, 75),
       Signal("S3", 1, 25), Signal("S4", 1, 75),
       Signal("S5", 2, 25), Signal("S6", 2, 75) >>

InitialLog == << LogEntry(Epoch, "INFO", "System initialized. AI engine is active.") >>

\* punctuality 99.1 and avg_delay 1.2, in tenths; no code writes the KPIs
InitialKpis == [punctuality |-> 991, avg_delay |-> 12, total_trains |-> 150, delayed_trains |-> 5]

\* everything but the trains and the signals
InitRest ==
    /\ ai_log = InitialLog
    /\ kpis = InitialKpis
    /\ state_lock = "free"
    /\ now = Epoch
    /\ pc = "idle"
    /\ tick_no = 0
    /\ tick_time = Epoch
    /\ rpc = "idle"
    /\ since = 0
    /\ recent_logs = <<>>
    /\ response = NoResponse
    /\ advice = NoAdvice
    /\ log_calls = 0
    /\ committed = WorldView(trains, signals)

Init ==
    /\ trains = InitialTrains
    /\ signals = InitialSignals
    /\ InitRest

NextEngine ==
    \/ AdvanceTrains
    \/ ManageSignals
    \/ JunctionConflicts
    \/ \E d \in SleepSet : Sleep(d)

-----------------------------------------------------------------------------
(* get_system_state *)

\* the values a caller may pass as since: 0, or the timestamp of a log entry
SinceSet == {0} \cup {ai_log[i].timestamp : i \in 1..Len(ai_log)}

RecentLogsInclusive(log, since_timestamp) ==
    LET Recent(entry) == entry.timestamp >= since_timestamp
    IN  SelectSeq(log, Recent)

RecentLogs(log, since_timestamp) ==
    LET Recent(entry) == entry.timestamp > since_timestamp
    IN  SelectSeq(log, Recent)

GetStateLockNoWait(s) ==
    /\ rpc = "idle"
    /\ state_lock' = "reader"
    /\ since' = s
    /\ rpc' = "locked"
    /\ UNCHANGED <<trains, signals, ai_log, kpis, now, pc, tick_no, tick_time, recent_logs,
                   response, advice, log_calls, committed>>

\* the request arrives and takes the lock
GetStateLock(s) ==
    /\ rpc = "idle"
    /\ state_lock = "free"
    /\ state_lock' = "reader"
    /\ since' = s
    /\ rpc' = "locked"
    /\ UNCHANGED <<trains, signals, ai_log, kpis, now, pc, tick_no, tick_time, recent_logs,
                   response, advice, log_calls, committed>>

\* the with block: recent_logs is a new list; response["trains"] is a new list
\* of the same train dicts, response["signals"] and response["kpis"] are the
\* dicts of system_state themselves, so nothing of them is copied here
GetStateCopy ==
    /\ rpc = "locked"
    /\ recent_logs' = RecentLogs(ai_log, since)
    /\ state_lock' = "free"
    /\ rpc' = "unlocked"
    /\ UNCHANGED <<trains, signals, ai_log, kpis, now, pc, tick_no, tick_time, since,
                   response, advice, log_calls, committed>>

\* response["trains"][i]["id"] = train_id, after the lock is released: the
\* dicts written are the train dicts of system_state
TagTrains(trs) == [i \in 1..Len(trs) |-> [trs[i] EXCEPT !.id = trs[i].tid]]

GetStateTag ==
    /\ rpc = "unlocked"
    /\ trains' = TagTrains(trains)
    /\ rpc' = "tagged"
    /\ UNCHANGED <<signals, ai_log, kpis, state_lock, now, pc, tick_no, tick_time, since,
                   recent_logs, response, advice, log_calls, committed>>

\* jsonify(response): the train and signal dicts are read now
Jsonify(trs, sigs, logs, k) == [trains |-> trs, signals |-> sigs, logs |-> logs, kpis |-> k]

GetStateJsonify ==
    /\ rpc = "tagged"
    /\ response' = Jsonify(trains, signals, recent_logs, kpis)
    /\ rpc' = "idle"
    /\ since' = 0
    /\ recent_logs' = <<>>
    /\ UNCHANGED <<trains, signals, ai_log, kpis, state_lock, now, pc, tick_no, tick_time,
                   advice, log_calls, committed>>

-----------------------------------------------------------------------------
(* simulate_scenario *)

EventTypes == {"delay", "track_closure", "new_train", "maintenance"}

\* the templated answer; plan is the number of its lines
Scenario(event_type) ==
    IF event_type = "delay"
    THEN [scenario |-> "Train T123 is delayed by 5 minutes.", plan |-> 3,
          impact |-> "Minor cascading delays expected on 2-3 trains."]
    ELSE IF event_type = "track_closure"
    THEN [scenario |-> "Track " \o ToString(0 + 1) \o " closed for 10 minutes.", plan |-> 3,
          impact |-> "Significant delays expected on this track."]
    ELSE IF event_type = "new_train"
    THEN [scenario |-> "Add unscheduled train T999 on Track " \o ToString(0 + 1) \o ".",
          plan |-> 3, impact |-> "Minimal impact if traffic is light."]
    ELSE [scenario |-> "Unknown", plan |-> 0, impact |-> "Analysis in progress..."]

SimulateScenario(event_type) ==
    /\ advice' = Scenario(event_type)
    /\ UNCHANGED <<trains, signals, ai_log, kpis, state_lock, now, pc, tick_no, tick_time,
                   rpc, since, recent_logs, response, log_calls, committed>>

NextApi ==
    \/ \E s \in SinceSet : GetStateLock(s)
    \/ GetStateCopy
    \/ GetStateTag
    \/ GetStateJsonify
    \/ \E e \in EventTypes : SimulateScenario(e)

Next == NextEngine \/ NextApi

\* the shipped configuration, the engine and the two request handlers
Spec == Init /\ [][Next]_vars

-----------------------------------------------------------------------------
(* Any configuration of two trains and two signals around J1; the engine alone *)

TrainIdOrders == {<<"T1", "T2">>, <<"T2", "T1">>}
FirstTrainPositions == {47, 49, 51}
SecondTrainPositions == {47, 51, 99, 100}
SignalPositions == {49, 50}
SecondSignalPositions == {25, 49, 50}
Priorities == {1, 2}
AnySpeeds == {50}

InitAny ==
    /\ \E ids \in TrainIdOrders, p1 \in FirstTrainPositions, p2 \in SecondTrainPositions,
          k2 \in {0, 1}, r1 \in Priorities, r2 \in Priorities, v \in AnySpeeds :
          trains = << Train(ids[1], 0, p1, v, r1), Train(ids[2], k2, p2, v, r2) >>
    /\ \E q1 \in SignalPositions, q2 \in SecondSignalPositions, k2 \in {0, 1} :
          signals = << Signal("S1", 0, q1), Signal("S2", k2, q2) >>
    /\ InitRest

SpecAny == InitAny /\ [][NextEngine]_vars

-----------------------------------------------------------------------------
(* Two trains and two signals on track 3, which no junction touches *)

FollowerPositions == {44, 46, 47}
LeaderPositions == {51, 69, 97}
FirstSignalPositions == {49, 50, 52}
LineSpeeds == {45}

InitLine ==
    /\ \E p1 \in FollowerPositions, p2 \in LeaderPositions, v \in LineSpeeds :
          trains = << Train("T1", 2, p1, v, 1), Train("T2", 2, p2, v, 1) >>
    /\ \E q1 \in FirstSignalPositions, q2 \in SignalPositions :
          signals = << Signal("S1", 2, q1), Signal("S2", 2, q2) >>
    /\ InitRest

SpecLine == InitLine /\ [][NextEngine]_vars

-----------------------------------------------------------------------------
(* The shipped signals, two trains near the end of track 3, and the engine at
   its cadence of one tick a second *)

RunnerSpeeds == {360}
ChaserPositions == {98, 99}
ChaserSpeeds == {0, 360, 720}

InitCadence ==
    /\ \E v1 \in RunnerSpeeds, p2 \in ChaserPositions, v2 \in ChaserSpeeds :
          trains = << Train("T1", 2, 97, v1, 1), Train("T2", 2, p2, v2, 1) >>
    /\ signals = InitialSignals
    /\ InitRest

SleepCadence == tick_no < CadenceTicks /\ SleepFor(SleepSeconds)

NextCadence ==
    \/ AdvanceTrains
    \/ ManageSignals
    \/ JunctionConflicts
    \/ SleepCadence

\* while True: the loop goes on as long as a step of it can be taken
SpecCadence == InitCadence /\ [][NextCadence]_vars /\ WF_vars(NextCadence)

-----------------------------------------------------------------------------
(* The shipped configuration and the engine running for ever, a tick every
   Stall seconds.  The code reads the clock only to take differences with
   last_update, so the pause moves every time kept in the state back by its
   length instead of moving the clock on, and the iteration counters of the
   model restart: the states of the endless loop are then finitely many. *)

Rebase(log, d) == [k \in 1..Len(log) |-> [log[k] EXCEPT !.timestamp = @ - d]]

LivePause(d) ==
    /\ pc = "sleeping"
    /\ pc' = "idle"
    /\ trains' = [i \in 1..Len(trains) |-> [trains[i] EXCEPT !.last_update = @ - d]]
    /\ ai_log' = Rebase(ai_log, d)
    /\ tick_time' = tick_time - d
    /\ tick_no' = 0
    /\ log_calls' = 0
    /\ committed' = WorldView(trains', signals)
    /\ UNCHANGED <<signals, kpis, state_lock, now, apiVars>>

NextLive ==
    \/ AdvanceTrains
    \/ ManageSignals
    \/ JunctionConflicts
    \/ LivePause(Stall)

\* while True: the loop goes on as long as a step of it can be taken
SpecLive == Init /\ [][NextLive]_vars /\ WF_vars(NextLive)

-----------------------------------------------------------------------------
(* Configurations that name a track or a signal that does not exist *)

AbsentTracks == {5}
SecondSignalIds == {"S4", "S7"}

\* setup_initial_state checks nothing: any such dict starts the engine
InitBad ==
    /\ \E p1 \in FirstTrainPositions, p2 \in SecondTrainPositions,
          k1 \in {0} \cup AbsentTracks, k2 \in {1} \cup AbsentTracks, v \in AnySpeeds :
          trains = << Train("T1", k1, p1, v, 1), Train("T2", k2, p2, v, 2) >>
    /\ \E q1 \in SignalPositions, q2 \in SignalPositions, k2 \in {1} \cup AbsentTracks,
          id2 \in SecondSignalIds :
          signals = << Signal("S2", 0, q1), Signal(id2, k2, q2) >>
    /\ InitRest

NextBad == NextEngine \/ AdvanceTrainsFault

SpecBad == InitBad /\ [][NextBad]_vars

-----------------------------------------------------------------------------
(* log_ai_decision alone, on logs of any length up to the capacity *)

\* the log after n - 1 calls, one a second, since setup_initial_state
Prefilled(n) ==
    [i \in 1..n |->
        IF i = n THEN InitialLog[1]
        ELSE LogEntry(Epoch + n - i, "ACTION", "Path not clear for signal S3. Train T456 in block.")]

PrefilledLengths == {1, LogCapacity \div 2, LogCapacity - 1, LogCapacity}

Levels == {"INFO", "WARNING", "ACTION"}

InitLog ==
    /\ trains = InitialTrains
    /\ signals = InitialSignals
    /\ \E n \in PrefilledLengths :
          /\ ai_log = Prefilled(n)
          /\ now = Epoch + n - 1
    /\ kpis = InitialKpis
    /\ state_lock = "engine"
    /\ pc = "advanced"
    /\ tick_no = 1
    /\ tick_time = now
    /\ rpc = "idle"
    /\ since = 0
    /\ recent_logs = <<>>
    /\ response = NoResponse
    /\ advice = NoAdvice
    /\ log_calls = 0
    /\ committed = WorldView(trains, signals)

\* one call log_ai_decision(level, message), d seconds after the last one
Record(level, message, d) ==
    /\ log_calls < MaxRecords
    /\ now' = now + d
    /\ ai_log' = LogAiDecision(ai_log, now', level, message)
    /\ log_calls' = log_calls + 1
    /\ UNCHANGED <<trains, signals, kpis, state_lock, pc, tick_no, tick_time, apiVars, committed>>

NextLog == \E level \in Levels, d \in {0, 1} : Record(level, "message", d)

SpecLog == InitLog /\ [][NextLog]_vars

-----------------------------------------------------------------------------
(* Properties *)

BetweenTicks == pc \in {"idle", "sleeping"}
AfterTick == pc = "sleeping"

SignalById(sid) == signals[CHOOSE i \in 1..Len(signals) : signals[i].sid = sid]

\* two trains on different tracks of J1, both within 25 units of it
CrossTrackConflict ==
    \E i, j \in 1..Len(trains) :
        /\ TrainNearJ1(trains[i])
        /\ TrainNearJ1(trains[j])
        /\ trains[i].track # trains[j].track

GreenGates == {i \in 1..Len(J1.controlled_by) : SignalById(J1.controlled_by[i]).state = "GREEN"}

\* C1: between ticks, when trains on different tracks of J1 are within 25 units
\* of J1, at most one of the signals that gate J1 (S2, S4) is GREEN.
C1_JunctionSafety ==
    (BetweenTicks /\ CrossTrackConflict) => Cardinality(GreenGates) <= 1

\* the step of a tick that runs from the state
StepAdvance == pc = "idle" /\ pc' = "advanced"
StepJunction == pc = "signalled" /\ pc' = "sleeping"

\* the entries the step put on the log (the log is far from full)
NewEntries == SubSeq(ai_log', 1, Len(ai_log') - Len(ai_log))
CountLevel(entries, level) == Cardinality({k \in 1..Len(entries) : entries[k].level = level})

Winner == Contenders(trains)[1]

\* C2: after a tick in which arbitration fired, every signal within 25 units of
\* J1 on the winner's track is GREEN, and every such signal on the track of
\* another contending train is RED.
C2_ArbitrationForcesSignals ==
    (AfterTick /\ ConflictAtJ1(trains)) =>
        \A i \in 1..Len(signals) :
            NearJ1(signals[i].position) =>
                /\ signals[i].track = Winner.track => signals[i].state = "GREEN"
                /\ ( /\ signals[i].track # Winner.track
                     /\ \E k \in 1..Len(trains) :
                            TrainNearJ1(trains[k]) /\ trains[k].track = signals[i].track )
                   => signals[i].state = "RED"

\* exactly two trains near J1, on tracks 0 and 1, with priorities 1 and 2
C3_Scenario ==
    LET near == TrainsNearJ1(trains)
    IN  /\ Len(near) = 2
        /\ {near[1].track, near[2].track} = {0, 1}
        /\ {near[1].priority, near[2].priority} = {1, 2}

\* C3: in that scenario the arbitration step leaves the signals near J1 of the
\* priority-1 train's track GREEN and those of the priority-2 train's track
\* RED, and puts exactly one WARNING, naming the priority-1 train, and one
\* ACTION on the log.
C3_JunctionScenario ==
    [][ (StepJunction /\ C3_Scenario) =>
          LET near == TrainsNearJ1(trains)
              first == IF near[1].priority = 1 THEN near[1] ELSE near[2]
              second == IF near[1].priority = 1 THEN near[2] ELSE near[1]
          IN  /\ \A i \in 1..Len(signals') :
                    NearJ1(signals'[i].position) =>
                        /\ signals'[i].track = first.track => signals'[i].state = "GREEN"
                        /\ signals'[i].track = second.track => signals'[i].state = "RED"
              /\ Len(NewEntries) = 2
              /\ CountLevel(NewEntries, "ACTION") = 1
              /\ \E k \in 1..Len(NewEntries) :
                    /\ NewEntries[k].level = "WARNING"
                    /\ NewEntries[k].message =
                         "Conflict near Junction J1. Prioritizing " \o first.tid \o "."
      ]_vars

InRange(data) == 0 <= data.position /\ data.position < P(TrackLengths[data.track])

\* C4: after any tick every train's position is in [0, track length); a
\* position that reaches the track length is wrapped to 0 in the same tick.
C4_PositionInRange ==
    /\ [](tick_no >= 1 => \A i \in 1..Len(trains) : InRange(trains[i]))
    /\ [][ StepAdvance =>
             \A i \in 1..Len(trains) :
                 MoveTrain(trains[i], signals, now).position >= P(TrackLengths[trains[i].track])
                     => trains'[i].position = 0
         ]_vars

\* a train ran over the end of its track in a tick with time elapsed
C4_Wrapped ==
    /\ AfterTick
    /\ now > Epoch
    /\ \E i \in 1..Len(trains) :
          /\ trains[i].position = 0
          /\ trains[i].last_update = now
          /\ \E k \in 1..Len(ai_log) :
                ai_log[k] = LogEntry(now, "INFO", CompletionMessage(trains[i]).message)

\* the signals strictly ahead of the train on its track, and the nearest of them
SignalsAhead(data) ==
    {i \in 1..Len(signals) :
        signals[i].track = data.track /\ signals[i].position > data.position}
NearestAhead(data) ==
    {i \in SignalsAhead(data) :
        \A j \in SignalsAhead(data) : signals[i].position <= signals[j].position}
StoppedBy(data) ==
    {i \in NearestAhead(data) :
        /\ signals[i].position - data.position < P(LookAhead)
        /\ signals[i].state = "RED"}

\* C5: a train whose nearest signal ahead is less than 5 units away and RED
\* when the tick starts does not move in the tick, and its status names that
\* signal.
C5_BlockedAtNearest ==
    [][ StepAdvance =>
          \A k \in 1..Len(trains) :
              StoppedBy(trains[k]) # {} =>
                  /\ trains'[k].position = trains[k].position
                  /\ \E i \in StoppedBy(trains[k]) :
                        trains'[k].status = "Waiting at signal " \o signals[i].sid
      ]_vars

\* C6: after the signal recomputation a signal is GREEN exactly when no train
\* of its track is in [position, position + 20).
C6_GreenIffWindowFree ==
    pc = "signalled" =>
        \A i \in 1..Len(signals) :
            signals[i].state = "GREEN" <=>
                ~ \E k \in 1..Len(trains) :
                    /\ trains[k].track = signals[i].track
                    /\ signals[i].position <= trains[k].position
                    /\ trains[k].position < signals[i].position + P(BlockLength)

\* the train identifiers of the model, in lexical order
LexOrder == <<"T1", "T123", "T2", "T246", "T456", "T789">>
LexRank(tid) == CHOOSE i \in 1..Len(LexOrder) : LexOrder[i] = tid

NearIdx == {i \in 1..Len(trains) : TrainNearJ1(trains[i])}
TiedIdx == {i \in NearIdx : \A j \in NearIdx : trains[i].priority <= trains[j].priority}
LexFirstTied == CHOOSE i \in TiedIdx : \A j \in TiedIdx : LexRank(trains[i].tid) <= LexRank(trains[j].tid)
Warnings == {k \in 1..Len(ai_log) : ai_log[k].level = "WARNING"}

\* C7: when arbitration fires and two contending trains share the lowest
\* priority, the train the WARNING names as prioritized is the one with the
\* lexically smaller identifier, whatever the order of the train collection.
C7_TieBreakByIdentifier ==
    (AfterTick /\ ConflictAtJ1(trains) /\ Cardinality(TiedIdx) >= 2) =>
        /\ Warnings # {}
        /\ ai_log[MinOf(Warnings)] =
             LogEntry(now, "WARNING", "Conflict near Junction J1. Prioritizing "
                                      \o trains[LexFirstTied].tid \o ".")

NewestFirst(log) ==
    \A i, j \in 1..Len(log) : i < j => log[i].timestamp >= log[j].timestamp

\* C8: the log never holds more than 100 entries and is ordered newest first;
\* a call at capacity puts the new entry at the head, drops exactly the tail
\* entry and keeps the other 99 in order (below capacity it drops nothing).
C8_LogBounded ==
    /\ [](Len(ai_log) <= LogCapacity /\ NewestFirst(ai_log))
    /\ [][ log_calls' = log_calls + 1 =>
             /\ ai_log'[1].timestamp = now'
             /\ Len(ai_log) = LogCapacity =>
                   /\ Len(ai_log') = LogCapacity
                   /\ \A i \in 2..LogCapacity : ai_log'[i] = ai_log[i - 1]
             /\ Len(ai_log) < LogCapacity => Tail(ai_log') = ai_log
         ]_vars

\* a call at capacity has dropped the entry of setup_initial_state
C8_Evicted ==
    /\ log_calls >= 1
    /\ Len(ai_log) = LogCapacity
    /\ ai_log[LogCapacity] # InitialLog[1]
    /\ ai_log[1].timestamp = now

\* trains and signals as the tick in progress, if any, will leave them
TickOutcome ==
    WorldView(trains,
              IF pc = "advanced"
              THEN ResolveSignals([i \in 1..Len(signals) |-> ManageSignal(signals[i], trains)], trains)
              ELSE IF pc = "signalled" THEN ResolveSignals(signals, trains)
              ELSE signals)

\* C9: the trains and signals of a response are those of World State between
\* two ticks: as the last finished tick left them, or as the tick in progress
\* leaves them, never a mix of the two.
C9_SnapshotConsistent ==
    [][ (rpc = "tagged" /\ rpc' = "idle") =>
          WorldView(response'.trains, response'.signals) \in {committed, TickOutcome}
      ]_vars

\* C10: no step of get_system_state or simulate_scenario changes a train, a
\* signal, the log or the KPIs.
C10_HandlersDoNotWrite ==
    [][ (rpc' # rpc \/ advice' # advice) => UNCHANGED <<trains, signals, ai_log, kpis>> ]_vars

-----------------------------------------------------------------------------
(* C11 *)

StepCopy == rpc = "locked" /\ rpc' = "unlocked"
StepJsonify == rpc = "tagged" /\ rpc' = "idle"

\* the places of the log whose entry is newer than t
NewerThan(log, t) == {i \in 1..Len(log) : log[i].timestamp > t}

\* the k-th smallest member of a set of numbers
KthOf(S, k) == CHOOSE x \in S : Cardinality({y \in S : y < x}) = k - 1

\* logs holds the entries of log newer than t, each once, in the order of log
ExactlyNewer(logs, log, t) ==
    /\ Len(logs) = Cardinality(NewerThan(log, t))
    /\ \A k \in 1..Len(logs) : logs[k] = log[KthOf(NewerThan(log, t), k)]

\* C11: the locked section of get_system_state selects exactly the log entries
\* whose timestamp is strictly greater than since: all of them when since is
\* the default 0, none when since is the timestamp of the newest entry; the
\* response carries that list with every train and every signal.
C11_LogsSince ==
    [][ /\ StepCopy =>
              /\ ExactlyNewer(recent_logs', ai_log, since)
              /\ since = 0 => recent_logs' = ai_log
              /\ since = ai_log[1].timestamp => recent_logs' = <<>>
        /\ StepJsonify =>
              /\ response'.logs = recent_logs
              /\ Len(response'.trains) = Len(trains)
              /\ \A i \in 1..Len(trains) : response'.trains[i].tid = trains[i].tid
              /\ Len(response'.signals) = Len(signals)
              /\ \A i \in 1..Len(signals) : response'.signals[i].sid = signals[i].sid
      ]_vars

\* a request whose since is the newest timestamp of a log of several entries,
\* after its locked section: no log entry selected
C11_NothingNew ==
    /\ rpc = "unlocked"
    /\ tick_no >= 2
    /\ Len(ai_log) > 1
    /\ since = ai_log[1].timestamp
    /\ recent_logs = <<>>

-----------------------------------------------------------------------------
(* C12 *)

SignalIds == {signals[i].sid : i \in 1..Len(signals)}

\* every train and signal is on a track of the registry, and the junction
\* names signals that exist
ValidConfiguration ==
    /\ \A i \in 1..Len(trains) : trains[i].track \in DOMAIN TrackLengths
    /\ \A i \in 1..Len(signals) : signals[i].track \in DOMAIN TrackLengths
    /\ \A i \in 1..Len(J1.controlled_by) : J1.controlled_by[i] \in SignalIds

\* C12: a configuration with a reference to an absent track or signal never
\* gets to a tick, and no tick ends in an error.
C12_RejectedAtStartup ==
    /\ tick_no >= 1 => ValidConfiguration
    /\ pc # "crashed"

-----------------------------------------------------------------------------
(* C13 *)

\* where a run of the elapsed time takes the train: speed * elapsed / 3600
\* further, or to 0 from the end of the track
AfterRun(data) ==
    LET q == data.position + (data.speed * (now - data.last_update) * Scale) \div 3600
    IN  IF q >= P(TrackLengths[data.track]) THEN 0 ELSE q

\* C13: a train is held only by its nearest signal ahead, when that signal is
\* less than 5 units away and not GREEN; a train with no signal ahead, or with
\* the nearest one 5 units or more away, or GREEN (whatever the signals behind
\* it show), runs speed * elapsed / 3600 and is "On Time".
C13_BlockedOnlyByNearest ==
    [][ StepAdvance =>
          \A k \in 1..Len(trains) :
              StoppedBy(trains[k]) = {} =>
                  /\ trains'[k].position = AfterRun(trains[k])
                  /\ trains'[k].status = "On Time"
      ]_vars

-----------------------------------------------------------------------------
(* C14 *)

\* where a run of e seconds takes the train
Ran(data, e) ==
    LET q == data.position + (data.speed * e * Scale) \div 3600
    IN  IF q >= P(TrackLengths[data.track]) THEN 0 ELSE q

\* C14: a tick stamps every train, blocked or clear, with the time of the
\* tick; a train that was waiting and is clear in this tick runs for the time
\* since the tick before, whatever the time it spent waiting.
C14_BlockedTimeNotCredited ==
    [][ StepAdvance =>
          \A k \in 1..Len(trains) :
              /\ trains'[k].last_update = now
              /\ (trains[k].status # "On Time" /\ trains'[k].status = "On Time")
                    => trains'[k].position = Ran(trains[k], now - tick_time)
      ]_vars

\* a train that waited through a tick a long pause after the tick before it,
\* and ran in the next tick, a second later, for that second only
C14_ClearAfterWaiting ==
    /\ pc = "advanced"
    /\ tick_no = 3
    /\ now = Epoch + Stall + SleepSeconds
    /\ \E k \in 1..Len(trains) :
          /\ committed.trains[k].status # "On Time"
          /\ trains[k].status = "On Time"
          /\ trains[k].position = committed.trains[k].position
                                    + (trains[k].speed * SleepSeconds * Scale) \div 3600

-----------------------------------------------------------------------------
(* C15 *)

\* the completion entries for the train among the entries of the step
Completions(data) ==
    {k \in 1..Len(NewEntries) :
        NewEntries[k] = LogEntry(now, "INFO", CompletionMessage(data).message)}

\* the position of the train after the advancement of step 1, before the wrap
Advanced(data) ==
    IF BlockingSignals(data, signals) # {} THEN data.position
    ELSE data.position + (data.speed * (now - data.last_update) * Scale) \div 3600

\* the train of the scenario, and the ticks of 0.1 unit it needs from 97 to 100
Runner == trains[1]
RunnerTicks == (P(100) - P(97)) \div ((Runner.speed * SleepSeconds * Scale) \div 3600)

RunnerWrapped ==
    /\ Runner.position = 0
    /\ \E k \in 1..Len(ai_log) :
          /\ ai_log[k].level = "INFO"
          /\ ai_log[k].message = CompletionMessage(Runner).message

\* C15: a tick that takes a train to the length of its track or past it logs
\* exactly one INFO completion entry for the train and puts it at 0; a tick
\* that leaves it below the length logs none.  A clear train at 97 on a track
\* of 100, at 360 units an hour and a tick a second, gains 0.1 a tick, and in
\* the end reaches 100 and is put at 0 with that entry.
C15_CompletionAndWrap ==
    /\ [][ StepAdvance =>
             \A k \in 1..Len(trains) :
                 IF Advanced(trains[k]) >= P(TrackLengths[trains[k].track])
                 THEN Cardinality(Completions(trains[k])) = 1 /\ trains'[k].position = 0
                 ELSE Cardinality(Completions(trains[k])) = 0
                      /\ trains'[k].position = Advanced(trains[k])
         ]_vars
    /\ [](tick_no \in 1..RunnerTicks =>
             Runner.position = P(97) + (tick_no - 1) * (P(1) \div 10))
    /\ (tick_no = 0) ~> RunnerWrapped

\* the tick that takes the train of the scenario from 99.9 to 100 and to 0
C15_RunnerWraps ==
    /\ pc = "advanced"
    /\ tick_no = RunnerTicks + 1
    /\ committed.trains[1].position = P(100) - P(1) \div 10
    /\ RunnerWrapped
    /\ ai_log[1].timestamp = now

-----------------------------------------------------------------------------
(* C16 *)

\* the trains (indices) within 25 units of J1 on one of its tracks
NearTrains == {k \in 1..Len(trains) : TrainNearJ1(trains[k])}

\* the signal is within 25 units of J1 on the track of one of those trains
Affected(sig) ==
    /\ NearJ1(sig.position)
    /\ \E k \in NearTrains : trains[k].track = sig.track

\* C16: the arbitration step with fewer than two trains near J1 logs no
\* WARNING and changes no signal; with two or more it changes no signal that
\* is on no contending train's track or 25 units or more from J1.
C16_ArbitrationFrame ==
    [][ StepJunction =>
          IF Cardinality(NearTrains) < 2
          THEN signals' = signals /\ CountLevel(NewEntries, "WARNING") = 0
          ELSE \A i \in 1..Len(signals) : ~Affected(signals[i]) => signals'[i] = signals[i]
      ]_vars

\* after an arbitration, a signal 25 units from J1 on a contending train's
\* track shows what step 2 gave it, and not what the signal near J1 on the
\* same track was forced to
C16_FarSignalKept ==
    /\ AfterTick
    /\ Cardinality(NearTrains) >= 2
    /\ \E i, j \in 1..Len(signals) :
          /\ ~NearJ1(signals[i].position)
          /\ Affected(signals[j])
          /\ signals[i].track = signals[j].track
          /\ signals[i].state = "GREEN"
          /\ signals[j].state = "RED"

-----------------------------------------------------------------------------
(* C17 *)

SignalStates == {"GREEN", "RED"}

\* the signals with other states than they have
WithStates(sigs, g) == [i \in 1..Len(sigs) |-> [sigs[i] EXCEPT !.state = g[i]]]

\* steps 2 and 3 of a tick run from the trains as they are and the signals as given
Recomputed(sigs) ==
    ResolveSignals([i \in 1..Len(sigs) |-> ManageSignal(sigs[i], trains)], trains)

\* C17: the signal states at the end of a tick are those that steps 2 and 3
\* give from the trains as step 1 left them, whatever states the signals had
\* before: a run that differs only in those earlier states ends the tick with
\* the same signals.
C17_SignalsHaveNoMemory ==
    AfterTick =>
        \A g \in [1..Len(signals) -> SignalStates] :
            Recomputed(WithStates(signals, g)) = signals

\* the end of a first tick that turned a signal from GREEN to RED and left
\* another GREEN
C17_Recomputed ==
    /\ AfterTick
    /\ tick_no = 1
    /\ \E i, j \in 1..Len(signals) : signals[i].state = "RED" /\ signals[j].state = "GREEN"

-----------------------------------------------------------------------------
(* C18 *)

TickInProgress == pc \in {"advanced", "signalled"}
ReaderInSection == rpc = "locked"

\* C18: the engine holds the lock from the start of step 1 to the end of step 3
\* and not while it sleeps; the reader holds it in its copy section; the two
\* never hold it together, so no copy section overlaps a tick.
C18_MutualExclusion ==
    /\ TickInProgress <=> state_lock = "engine"
    /\ ReaderInSection <=> state_lock = "reader"
    /\ ~(TickInProgress /\ ReaderInSection)

\* a reader in its copy section when the engine's pause is over: the next
\* tick waits for the lock
C18_EngineWaits ==
    /\ ReaderInSection
    /\ pc = "idle"
    /\ tick_no >= 1
    /\ state_lock = "reader"

-----------------------------------------------------------------------------
(* C19 *)

\* what the train would run in this tick: speed * elapsed / 3600
RunOf(data) == (data.speed * (now - data.last_update) * Scale) \div 3600

\* C19: a train that would run less than the 5 units of look-ahead in a tick
\* does not get from below a signal of its track to the signal or past it in
\* that tick when the signal is not GREEN at the start of the tick.
C19_NoOverrun ==
    [][ StepAdvance =>
          \A k \in 1..Len(trains) : \A i \in 1..Len(signals) :
              ( /\ RunOf(trains[k]) < P(LookAhead)
                /\ signals[i].track = trains[k].track
                /\ trains[k].position < signals[i].position
                /\ signals[i].state # "GREEN" )
              => trains'[k].position < signals[i].position
      ]_vars

\* a train that ran in this tick towards a signal that was RED when the tick
\* started, and is now less than a unit before it
C19_StopsShort ==
    /\ pc = "advanced"
    /\ \E k \in 1..Len(trains) : \E i \in 1..Len(signals) :
          /\ signals[i].track = trains[k].track
          /\ signals[i].state = "RED"
          /\ committed.trains[k].position < trains[k].position
          /\ trains[k].position < signals[i].position
          /\ signals[i].position - trains[k].position < P(1)

-----------------------------------------------------------------------------
(* C20 *)

Waiting(k) == trains[k].status # "On Time"

\* the tick has put the train at 0 and logged its completion
CompletedNow(k) ==
    /\ pc = "advanced"
    /\ trains[k].position = 0
    /\ \E e \in 1..Len(ai_log) :
          ai_log[e] = LogEntry(now, "INFO", CompletionMessage(trains[k]).message)

\* C20: from the shipped configuration, with ticks for ever and time passing
\* between them, every train (all have a positive speed) that waits at a
\* signal is clear again later, and every train completes its track, wrapping
\* to 0 with its log entry, again and again.  "Waiting leads to clear" is
\* written as "clear infinitely often", which is the same property.
C20_NoSignalDeadlock ==
    \A k \in 1..Len(InitialTrains) :
        /\ InitialTrains[k].speed > 0
        /\ []<>(~Waiting(k))
        /\ []<>CompletedNow(k)

\* a train held at a signal by the other train of its track
C20_TrainWaits ==
    /\ pc = "advanced"
    /\ \E k \in 1..Len(trains) :
          /\ Waiting(k)
          /\ trains[k].speed > 0
          /\ \E j \in 1..Len(trains) : j # k /\ trains[j].track = trains[k].track

====
